---- MODULE Spec2Model ----
(***************************************************************************)
(* The document question-answering assistant of src/app.py (tab5, lines    *)
(* 502-621): PDF extraction and halving, per-unit embedding, the pickled   *)
(* index file vector_db.pkl, the reindex button and the chat query         *)
(* handler, run by several Streamlit sessions that share the index file.   *)
(*                                                                         *)
(* Texts are sequences of characters.  Positions are 1-based (Python's     *)
(* index i is position i+1).  A cosine score is kept exactly as the        *)
(* integer 25 * dot / (norm_q * norm_c); the embedding vectors are chosen  *)
(* with norms 0, 1 or 5 so that this quotient is exact.                    *)
(***************************************************************************)
EXTENDS Integers, Sequences, FiniteSets, TLC

VARIABLES
    docs,           \* the PDF files on disk: per file name, whether it exists and its page texts
    db_file,        \* vector_db.pkl: whether it exists and the pieces written to it
    session_state,  \* per session: st.session_state (db_chunks, messages)
    pc,             \* per session: where its script run stands
                    \*   "start"      at line 538 with no db_chunks in session_state
                    \*   "embed"      in the loop of lines 559-560
                    \*   "open"       before line 563
                    \*   "write"      inside pickle.dump, line 564
                    \*   "ui"         run ended with button and chat input drawn
                    \*   "q_embed"    in get_embedding(prompt), line 590
                    \*   "q_generate" in the chat completion call, lines 605-612
                    \*   "halted"     run ended by st.stop() or an exception before line 570
    boot,           \* per session: locals of the bootstrap branch and its file handle
    q,              \* per session: locals of the query handler
    err,            \* per session: how its last run ended
    pre,            \* per session: what the last query found when submitted
    failed          \* per session: whether a query of the session has ended in an exception

vars == <<docs, db_file, session_state, pc, boot, q, err, pre, failed>>

-----------------------------------------------------------------------------
(* Bounds *)

MaxLen == 3
MaxPages == 2
MaxUnits == 5
MaxMessages == 4

-----------------------------------------------------------------------------
(* Inputs *)

Sessions == {"s1", "s2"}

files == <<"Strategiya.pdf", "Kons-FO_2024.pdf">>

Chars == {"a", " "}

Texts == UNION {[1..n -> Chars] : n \in 0..MaxLen}

\* Vectors the embedding service may return, the zero vector included.
Vectors == {<<0, 0>>, <<1, 0>>, <<3, 4>>, <<4, 3>>}

\* The ones it returns during a bootstrap.
EmbedOutputs == {<<0, 0>>, <<3, 4>>}

Prompts == {<<"a">>}

Answers == {"answer"}

NoDoc == [exists |-> FALSE, pages |-> <<>>]

Doc(pages) == [exists |-> TRUE, pages |-> pages]

-----------------------------------------------------------------------------
(* Text Extractor: get_pdf_chunks *)

Truthy(text) == text # <<>>

Mid(text) == Len(text) \div 2

FirstHalf(text, mid) == SubSeq(text, 1, mid)

\* The second half starting one character late.
SecondHalf_SkipsChar(text, mid) == SubSeq(text, mid + 2, Len(text))

SecondHalf(text, mid) == SubSeq(text, mid + 1, Len(text))

SourceLabel(filename, i) == [file |-> filename, page |-> i + 1]

PageChunks(filename, i, text) ==
    IF Truthy(text)
    THEN LET mid == Mid(text)
         IN  << [text |-> FirstHalf(text, mid), source |-> SourceLabel(filename, i)],
                [text |-> SecondHalf(text, mid), source |-> SourceLabel(filename, i)] >>
    ELSE <<>>

RECURSIVE ReaderChunks(_, _, _)
ReaderChunks(filename, pages, i) ==
    IF i >= Len(pages) THEN <<>>
    ELSE PageChunks(filename, i, pages[i + 1]) \o ReaderChunks(filename, pages, i + 1)

RECURSIVE get_pdf_chunks(_, _)
get_pdf_chunks(filenames, d) ==
    IF filenames = <<>> THEN <<>>
    ELSE LET filename == Head(filenames)
         IN  (IF d[filename].exists
              THEN ReaderChunks(filename, d[filename].pages, 0)
              ELSE <<>>)
             \o get_pdf_chunks(Tail(filenames), d)

-----------------------------------------------------------------------------
(* Embedding vectors and cosine similarity (query handler, lines 594-599) *)

RECURSIVE dot(_, _)
dot(a, b) ==
    IF a = <<>> \/ b = <<>> THEN 0
    ELSE Head(a) * Head(b) + dot(Tail(a), Tail(b))

ISqrt(n) == CHOOSE r \in 0..n : r * r <= n /\ (r + 1) * (r + 1) > n

norm(a) == ISqrt(dot(a, a))

NaN == [nan |-> TRUE, v |-> 0]

Num(x) == [nan |-> FALSE, v |-> x]

\* dot_product / (norm_q * norm_c) on numpy floats: a zero denominator means
\* a zero vector, hence a zero dot product, and 0.0 / 0.0 is nan (a warning,
\* no exception).
Score(query_vec, vector) ==
    LET dot_product == dot(query_vec, vector)
        norm_q == norm(query_vec)
        norm_c == norm(vector)
    IN  IF norm_q * norm_c = 0 THEN NaN
        ELSE Num((25 * dot_product) \div (norm_q * norm_c))

Similarities(query_vec, db_chunks) ==
    [i \in 1..Len(db_chunks) |-> Score(query_vec, db_chunks[i].vector)]

\* The order np.argsort sorts by: ascending, nan after every number.
SortsBefore(a, b) == b.nan \/ (~a.nan /\ a.v <= b.v)

\* np.argsort(similarities) with the default kind (an unstable sort): any
\* permutation that puts the scores in ascending order.
ArgSorts(similarities) ==
    LET N == Len(similarities)
    IN  {p \in Permutations(1..N) :
            \A i \in 1..N : i < N => SortsBefore(similarities[p[i]], similarities[p[i + 1]])}

TopK == 4

\* p[-4:]
LastK(p, k) == IF Len(p) <= k THEN p ELSE SubSeq(p, Len(p) - k + 1, Len(p))

\* p[::-1]
Reverse(p) == [i \in 1..Len(p) |-> p[Len(p) + 1 - i]]

TopIndices(p) == Reverse(LastK(p, TopK))

Context(db_chunks, top_indices) ==
    [i \in 1..Len(top_indices) |-> db_chunks[top_indices[i]].text]

Sources(db_chunks, top_indices) ==
    [i \in 1..Len(top_indices) |-> db_chunks[top_indices[i]].source]

-----------------------------------------------------------------------------
(* The index file: pickle.dump / pickle.load over a file written in pieces *)

STOP == [op |-> "STOP"]

HOLE == [op |-> "HOLE"]

Item(x) == [op |-> "ITEM", item |-> x]

\* pickle.dump(raw_chunks, f): the items in order, then the STOP opcode.
Dumps(obj) ==
    [i \in 1..(Len(obj) + 1) |-> IF i <= Len(obj) THEN Item(obj[i]) ELSE STOP]

StopAt(data) ==
    IF \E i \in 1..Len(data) : data[i] = STOP
    THEN CHOOSE i \in 1..Len(data) : data[i] = STOP /\ \A j \in 1..(i - 1) : data[j] # STOP
    ELSE 0

\* pickle.load(f): reads up to the first STOP; running out of data or
\* meeting a byte that is no opcode raises.
Loads(data) ==
    LET n == StopAt(data)
    IN  IF n = 0 \/ \E j \in 1..(n - 1) : data[j] = HOLE
        THEN [ok |-> FALSE, value |-> <<>>]
        ELSE [ok |-> TRUE, value |-> [j \in 1..(n - 1) |-> data[j].item]]

\* f.write at a file position: overwrites, extends, or leaves a hole of
\* zero bytes when the file was truncated under the writer.
WriteAt(data, pos, cell) ==
    [i \in 1..(IF pos > Len(data) THEN pos ELSE Len(data)) |->
        IF i = pos THEN cell
        ELSE IF i <= Len(data) THEN data[i]
        ELSE HOLE]

Absent == [exists |-> FALSE, data |-> <<>>]

File(data) == [exists |-> TRUE, data |-> data]

-----------------------------------------------------------------------------
(* Session state and script runs (lines 538-621) *)

NoBoot == [raw_chunks |-> <<>>, i |-> 0, fh |-> "none", off |-> 0]

NoQuery == [prompt |-> <<>>, query_vec |-> <<>>, similarities |-> <<>>,
            top_indices |-> <<>>, context |-> <<>>]

NewState == [has_db |-> FALSE, db_chunks |-> <<>>, messages |-> <<>>]

\* What a query found when it was submitted (kept for stating properties).
Snapshot(s) == [session_state |-> session_state[s], db_file |-> db_file]

NoSnapshot == [session_state |-> NewState, db_file |-> [exists |-> FALSE, data |-> <<>>]]

Turn(role, content) == [role |-> role, content |-> content]

\* The emptiness test left out.
ExtractionEmpty_Never(raw_chunks) == FALSE

\* if not raw_chunks (line 554)
ExtractionEmpty(raw_chunks) == raw_chunks = <<>>

\* Lines 540-544: the stored file exists, so it is unpickled into
\* session_state.db_chunks; an exception of pickle.load ends the run.
LoadIndex(s) ==
    /\ pc[s] = "start"
    /\ ~session_state[s].has_db
    /\ db_file.exists
    /\ LET r == Loads(db_file.data)
       IN  IF r.ok
           THEN /\ session_state' = [session_state EXCEPT ![s].has_db = TRUE,
                                                          ![s].db_chunks = r.value]
                /\ pc' = [pc EXCEPT ![s] = "ui"]
                /\ err' = [err EXCEPT ![s] = "none"]
           ELSE /\ pc' = [pc EXCEPT ![s] = "halted"]
                /\ err' = [err EXCEPT ![s] = "UnpicklingError"]
                /\ UNCHANGED session_state
    /\ UNCHANGED <<docs, failed, db_file, boot, q, pre>>

\* The bootstrap creating the file before the embedding calls.
StartBootstrap_OpensFirst(s) ==
    /\ pc[s] = "start"
    /\ ~session_state[s].has_db
    /\ ~db_file.exists
    /\ LET raw_chunks == get_pdf_chunks(files, docs)
       IN  IF ExtractionEmpty(raw_chunks)
           THEN /\ pc' = [pc EXCEPT ![s] = "halted"]
                /\ err' = [err EXCEPT ![s] = "EmptyExtraction"]
                /\ UNCHANGED <<boot, db_file>>
           ELSE /\ pc' = [pc EXCEPT ![s] = IF Len(raw_chunks) = 0 THEN "open" ELSE "embed"]
                /\ err' = [err EXCEPT ![s] = "none"]
                /\ db_file' = File(<<>>)
                /\ boot' = [boot EXCEPT ![s] = [NoBoot EXCEPT !.raw_chunks = raw_chunks,
                                                               !.i = 1]]
    /\ UNCHANGED <<docs, failed, session_state, q, pre>>

\* Lines 545-556: no stored file, so the documents are extracted; with
\* nothing extracted the run ends at st.stop().
StartBootstrap(s) ==
    /\ pc[s] = "start"
    /\ ~session_state[s].has_db
    /\ ~db_file.exists
    /\ LET raw_chunks == get_pdf_chunks(files, docs)
       IN  IF ExtractionEmpty(raw_chunks)
           THEN /\ pc' = [pc EXCEPT ![s] = "halted"]
                /\ err' = [err EXCEPT ![s] = "EmptyExtraction"]
                /\ UNCHANGED boot
           ELSE /\ pc' = [pc EXCEPT ![s] = IF Len(raw_chunks) = 0 THEN "open" ELSE "embed"]
                /\ err' = [err EXCEPT ![s] = "none"]
                /\ boot' = [boot EXCEPT ![s] = [NoBoot EXCEPT !.raw_chunks = raw_chunks,
                                                               !.i = 1]]
    /\ UNCHANGED <<docs, failed, db_file, session_state, q, pre>>

\* Lines 559-560, one iteration: the embedding service answers with a vector.
EmbedChunk(s) ==
    /\ pc[s] = "embed"
    /\ \E vector \in EmbedOutputs :
        LET i == boot[s].i
            chunk == boot[s].raw_chunks[i]
        IN  boot' = [boot EXCEPT ![s].raw_chunks[i] =
                                     [text |-> chunk.text, source |-> chunk.source,
                                      vector |-> vector],
                                 ![s].i = i + 1]
    /\ pc' = [pc EXCEPT ![s] = IF boot[s].i = Len(boot[s].raw_chunks) THEN "open" ELSE "embed"]
    /\ UNCHANGED <<docs, failed, db_file, session_state, q, err, pre>>

\* Lines 559-560: get_embedding raises; nothing catches it, the run ends and
\* its local raw_chunks is gone.
EmbedChunkFails(s) ==
    /\ pc[s] = "embed"
    /\ pc' = [pc EXCEPT ![s] = "halted"]
    /\ err' = [err EXCEPT ![s] = "EmbeddingServiceError"]
    /\ boot' = [boot EXCEPT ![s] = NoBoot]
    /\ UNCHANGED <<docs, failed, db_file, session_state, q, pre>>

\* Line 563: open(DB_FILE, "wb") creates the file or truncates it.
OpenDbFile(s) ==
    /\ pc[s] = "open"
    /\ db_file' = File(<<>>)
    /\ boot' = [boot EXCEPT ![s].fh = "live", ![s].off = 0]
    /\ pc' = [pc EXCEPT ![s] = "write"]
    /\ UNCHANGED <<docs, failed, session_state, q, err, pre>>

\* Line 564, one piece of pickle.dump reaching the file; after the last one
\* the file is closed and line 566 installs the index in the session.
WriteDbFile(s) ==
    /\ pc[s] = "write"
    /\ LET buf == Dumps(boot[s].raw_chunks)
           pos == boot[s].off + 1
       IN  /\ db_file' = IF boot[s].fh = "live"
                         THEN File(WriteAt(db_file.data, pos, buf[pos]))
                         ELSE db_file
           /\ IF pos = Len(buf)
              THEN /\ session_state' = [session_state EXCEPT
                                            ![s].has_db = TRUE,
                                            ![s].db_chunks = boot[s].raw_chunks]
                   /\ boot' = [boot EXCEPT ![s] = NoBoot]
                   /\ pc' = [pc EXCEPT ![s] = "ui"]
              ELSE /\ boot' = [boot EXCEPT ![s].off = pos]
                   /\ UNCHANGED <<session_state, pc>>
    /\ UNCHANGED <<docs, failed, q, err, pre>>

\* Lines 570-573: the reindex button removes the file and reruns the script;
\* the rerun finds db_chunks in session_state (line 538) and skips to the
\* chat.  A removed file stays reachable only through handles already open.
ClickReindex(s) ==
    /\ pc[s] = "ui"
    /\ session_state[s].has_db
    /\ IF db_file.exists
       THEN /\ db_file' = Absent
            /\ boot' = [t \in Sessions |->
                           IF boot[t].fh = "live" THEN [boot[t] EXCEPT !.fh = "orphan"]
                           ELSE boot[t]]
       ELSE UNCHANGED <<db_file, boot>>
    /\ q' = [q EXCEPT ![s] = NoQuery]
    /\ err' = [err EXCEPT ![s] = "none"]
    /\ UNCHANGED <<docs, failed, session_state, pc, pre>>

\* The prompt replacing the transcript.
SubmitQuery_ResetsTranscript(s) ==
    /\ pc[s] = "ui"
    /\ session_state[s].has_db
    /\ Len(session_state[s].messages) + 2 <= MaxMessages
    /\ \E prompt \in Prompts :
        /\ session_state' = [session_state EXCEPT
                                 ![s].messages = <<Turn("user", prompt)>>]
        /\ q' = [q EXCEPT ![s] = [NoQuery EXCEPT !.prompt = prompt]]
    /\ pre' = [pre EXCEPT ![s] = Snapshot(s)]
    /\ pc' = [pc EXCEPT ![s] = "q_embed"]
    /\ err' = [err EXCEPT ![s] = "none"]
    /\ UNCHANGED <<docs, failed, db_file, boot>>

\* Lines 583-590: the prompt is appended to the transcript, then the
\* embedding call for the question is issued.
SubmitQuery(s) ==
    /\ pc[s] = "ui"
    /\ session_state[s].has_db
    /\ Len(session_state[s].messages) + 2 <= MaxMessages
    /\ \E prompt \in Prompts :
        /\ session_state' = [session_state EXCEPT
                                 ![s].messages = Append(@, Turn("user", prompt))]
        /\ q' = [q EXCEPT ![s] = [NoQuery EXCEPT !.prompt = prompt]]
    /\ pre' = [pre EXCEPT ![s] = Snapshot(s)]
    /\ pc' = [pc EXCEPT ![s] = "q_embed"]
    /\ err' = [err EXCEPT ![s] = "none"]
    /\ UNCHANGED <<docs, failed, db_file, boot>>

\* Lines 594-595: chunk["vector"] exists (no KeyError) and np.dot accepts
\* the two lengths (no ValueError), for every chunk of the loop.
Scorable(query_vec, db_chunks) ==
    \A i \in 1..Len(db_chunks) :
        /\ "vector" \in DOMAIN db_chunks[i]
        /\ Len(db_chunks[i].vector) = Len(query_vec)

\* Lines 590-612: the question's vector arrives, the chunks are scored and
\* ranked, and the generation call is issued with the joined context; a
\* chunk that cannot be scored raises and ends the run.
RankChunks(s) ==
    /\ pc[s] = "q_embed"
    /\ \E query_vec \in Vectors :
        LET db_chunks == session_state[s].db_chunks
        IN  IF Scorable(query_vec, db_chunks)
            THEN LET similarities == Similarities(query_vec, db_chunks)
                 IN  /\ \E p \in ArgSorts(similarities) :
                            q' = [q EXCEPT ![s].query_vec = query_vec,
                                           ![s].similarities = similarities,
                                           ![s].top_indices = TopIndices(p),
                                           ![s].context = Context(db_chunks, TopIndices(p))]
                     /\ pc' = [pc EXCEPT ![s] = "q_generate"]
                     /\ UNCHANGED <<err, failed>>
            ELSE /\ q' = [q EXCEPT ![s].query_vec = query_vec]
                 /\ pc' = [pc EXCEPT ![s] = "ui"]
                 /\ err' = [err EXCEPT ![s] = "ScoringError"]
                 /\ failed' = [failed EXCEPT ![s] = TRUE]
    /\ UNCHANGED <<docs, db_file, session_state, boot, pre>>

\* Line 590: get_embedding raises inside the query handler.
QueryEmbeddingFails(s) ==
    /\ pc[s] = "q_embed"
    /\ pc' = [pc EXCEPT ![s] = "ui"]
    /\ err' = [err EXCEPT ![s] = "EmbeddingServiceError"]
    /\ failed' = [failed EXCEPT ![s] = TRUE]
    /\ UNCHANGED <<docs, db_file, session_state, boot, q, pre>>

\* Lines 614-621: the answer arrives and is appended as the assistant turn.
AppendAnswer(s) ==
    /\ pc[s] = "q_generate"
    /\ \E answer \in Answers :
        session_state' = [session_state EXCEPT
                              ![s].messages = Append(@, Turn("assistant", answer))]
    /\ pc' = [pc EXCEPT ![s] = "ui"]
    /\ UNCHANGED <<docs, failed, db_file, boot, q, err, pre>>

\* Lines 605-612: client.chat.completions.create raises.
GenerationFails(s) ==
    /\ pc[s] = "q_generate"
    /\ pc' = [pc EXCEPT ![s] = "ui"]
    /\ err' = [err EXCEPT ![s] = "GenerationServiceError"]
    /\ failed' = [failed EXCEPT ![s] = TRUE]
    /\ UNCHANGED <<docs, db_file, session_state, boot, q, pre>>

\* A run that ended before the chat was drawn is run again in the same
\* session: session_state is kept.
Rerun(s) ==
    /\ pc[s] = "halted"
    /\ pc' = [pc EXCEPT ![s] = "start"]
    /\ err' = [err EXCEPT ![s] = "none"]
    /\ UNCHANGED <<docs, failed, db_file, session_state, boot, q, pre>>

\* The session ends and a new one starts: session_state is empty again.
NewSession(s) ==
    /\ pc[s] \in {"ui", "halted"}
    /\ session_state' = [session_state EXCEPT ![s] = NewState]
    /\ pc' = [pc EXCEPT ![s] = "start"]
    /\ err' = [err EXCEPT ![s] = "none"]
    /\ q' = [q EXCEPT ![s] = NoQuery]
    /\ pre' = [pre EXCEPT ![s] = NoSnapshot]
    /\ failed' = [failed EXCEPT ![s] = FALSE]
    /\ UNCHANGED <<docs, db_file, boot>>

-----------------------------------------------------------------------------
(* Specifications *)

Unit(text, source, vector) == [text |-> text, source |-> source, vector |-> vector]

StoredIndex ==
    << Unit(<<"a">>, SourceLabel(files[1], 0), <<1, 0>>),
       Unit(<<"a">>, SourceLabel(files[1], 0), <<4, 3>>) >>

\* The file a first run may find: none, or one left by an earlier
\* deployment (a pickled list, possibly empty).
InitFiles == {Absent, File(Dumps(<<>>)), File(Dumps(StoredIndex))}

\* Files that are not the pickle of an index: a list with a unit that has
\* no vector, a list with vectors of two lengths, a pickle cut short.
NoVectorIndex ==
    << Unit(<<"a">>, SourceLabel(files[1], 0), <<1, 0>>),
       [text |-> <<"a">>, source |-> SourceLabel(files[1], 0)] >>

MixedIndex ==
    << Unit(<<"a">>, SourceLabel(files[1], 0), <<1, 0>>),
       Unit(<<"a">>, SourceLabel(files[1], 0), <<1>>) >>

CorruptFiles ==
    {File(Dumps(NoVectorIndex)), File(Dumps(MixedIndex)), File(<<Item(StoredIndex[1])>>)}

DocsWith(d1, d2) == [f \in {files[1], files[2]} |-> IF f = files[1] THEN d1 ELSE d2]

InitDocs ==
    {DocsWith(d, NoDoc) :
        d \in {NoDoc, Doc(<< <<>> >>), Doc(<< <<"a", "a">> >>),
               Doc(<< <<"a", " ", "a">>, <<"a">> >>)}}

SharedDocs == {DocsWith(d, NoDoc) : d \in {NoDoc, Doc(<< <<"a", "a">> >>)}}

PageLists == UNION {[1..n -> Texts] : n \in 0..MaxPages}

ExtractDocs ==
    {DocsWith(d1, d2) :
        d1 \in {NoDoc} \cup {Doc(pages) : pages \in PageLists},
        d2 \in {NoDoc, Doc(<< <<"a", " ">> >>), Doc(<< <<>>, <<"a">> >>)}}

RetrieveIndexes ==
    UNION {{[i \in 1..n |-> Unit(<<"a">>, SourceLabel(files[1], (i - 1) \div 2), vs[i])] :
               vs \in [1..n -> Vectors]} : n \in 0..MaxUnits}

InitSessions ==
    /\ session_state = [s \in Sessions |-> NewState]
    /\ pc = [s \in Sessions |-> "start"]
    /\ boot = [s \in Sessions |-> NoBoot]
    /\ q = [s \in Sessions |-> NoQuery]
    /\ err = [s \in Sessions |-> "none"]
    /\ pre = [s \in Sessions |-> NoSnapshot]
    /\ failed = [s \in Sessions |-> FALSE]

Bootstrap(s) ==
    \/ LoadIndex(s)
    \/ StartBootstrap(s)
    \/ EmbedChunk(s)
    \/ EmbedChunkFails(s)
    \/ OpenDbFile(s)
    \/ WriteDbFile(s)
    \/ ClickReindex(s)
    \/ Rerun(s)
    \/ NewSession(s)

Query(s) ==
    \/ SubmitQuery(s)
    \/ RankChunks(s)
    \/ QueryEmbeddingFails(s)
    \/ AppendAnswer(s)
    \/ GenerationFails(s)

\* One session: the orchestrator of one user, from its first run on.
Init ==
    /\ docs \in InitDocs
    /\ db_file \in InitFiles \cup CorruptFiles
    /\ InitSessions

Next == Bootstrap("s1") \/ Query("s1")

Spec == Init /\ [][Next]_vars

\* Several sessions building, loading and removing the one index file.
InitShared ==
    /\ docs \in SharedDocs
    /\ db_file \in InitFiles
    /\ InitSessions

NextShared == \E s \in Sessions : Bootstrap(s)

SpecShared == InitShared /\ [][NextShared]_vars

\* Retrieval over every index of up to MaxUnits units.
InitRetrieve ==
    /\ docs = DocsWith(NoDoc, NoDoc)
    /\ \E index \in RetrieveIndexes :
        /\ db_file = File(Dumps(index))
        /\ session_state = [s \in Sessions |->
                               IF s = "s1"
                               THEN [has_db |-> TRUE, db_chunks |-> index, messages |-> <<>>]
                               ELSE NewState]
    /\ pc = [s \in Sessions |-> IF s = "s1" THEN "ui" ELSE "start"]
    /\ boot = [s \in Sessions |-> NoBoot]
    /\ q = [s \in Sessions |-> NoQuery]
    /\ err = [s \in Sessions |-> "none"]
    /\ pre = [s \in Sessions |-> NoSnapshot]
    /\ failed = [s \in Sessions |-> FALSE]

NextRetrieve == SubmitQuery("s1") \/ RankChunks("s1")

SpecRetrieve == InitRetrieve /\ [][NextRetrieve]_vars

\* Extraction over every document set of up to MaxPages pages of up to
\* MaxLen characters.
InitExtract ==
    /\ docs \in ExtractDocs
    /\ db_file = Absent
    /\ InitSessions

NextExtract == StartBootstrap("s1")

SpecExtract == InitExtract /\ [][NextExtract]_vars

-----------------------------------------------------------------------------
(* Properties *)

Ready(s) == pc[s] \in {"ui", "q_embed", "q_generate"}

\* C1: a reindex command issued in READY clears the stored file and discards
\* the session's in-memory index, so that no later query is ranked against
\* the index held before the reindex.
C1_ReindexDiscardsIndex ==
    [][\A s \in Sessions :
          (ClickReindex(s) /\ session_state[s].db_chunks # <<>>)
              => (~db_file'.exists /\ ~session_state'[s].has_db)]_vars

\* C2: when the bootstrap extraction yields no unit the run halts: no index
\* is installed, the file stays absent, the session accepts no query, and no
\* bootstrap ever goes on to embed, write or install an empty index.
C2_EmptyExtractionIsFatal ==
    [][\A s \in Sessions :
          /\ (pc[s] = "start" /\ pc'[s] # "start" /\ ~db_file.exists
                  /\ get_pdf_chunks(files, docs) = <<>>)
                => (pc'[s] = "halted" /\ err'[s] = "EmptyExtraction"
                        /\ ~session_state'[s].has_db /\ ~db_file'.exists)
          /\ pc'[s] \in {"embed", "open", "write"} => boot'[s].raw_chunks # <<>>
          /\ (pc[s] = "write" /\ pc'[s] = "ui") => session_state'[s].db_chunks # <<>>
          /\ err'[s] = "EmptyExtraction" => ~Ready(s)']_vars

C2_Witness ==
    \E s \in Sessions :
        /\ pc[s] = "halted"
        /\ err[s] = "EmptyExtraction"
        /\ get_pdf_chunks(files, docs) = <<>>
        /\ ~db_file.exists
        /\ ~session_state[s].has_db

\* C3: after an embedding call of the bootstrap has failed, for whichever
\* unit, the run has halted with the file absent, no index in the session
\* and nothing kept of the failed run, which is the state from which the next
\* run bootstraps again.
C3_FailedBootstrapLeavesNothing ==
    \A s \in Sessions :
        (err[s] = "EmbeddingServiceError" /\ pc[s] # "ui")
            => /\ pc[s] = "halted"
               /\ ~db_file.exists
               /\ ~session_state[s].has_db
               /\ boot[s] = NoBoot

C3_Witness ==
    \E s \in Sessions :
        /\ pc[s] = "halted"
        /\ err[s] = "EmbeddingServiceError"
        /\ Len(get_pdf_chunks(files, docs)) >= 3
        /\ ~db_file.exists

\* C4: a query that failed in the embedding or the generation call leaves the
\* session's index, the stored file and the transcript as they were when the
\* query was submitted.
C4_FailedQueryRestoresState ==
    \A s \in Sessions :
        (pc[s] = "ui" /\ err[s] \in {"EmbeddingServiceError", "GenerationServiceError"})
            => /\ session_state[s].db_chunks = pre[s].session_state.db_chunks
               /\ session_state[s].messages = pre[s].session_state.messages
               /\ db_file = pre[s].db_file

\* C5: a session that starts while the file exists finds a complete pickle
\* in it, and a save that has closed the file leaves in it the index it saved
\* or the complete index of another session.
C5_SaveIsAtomic ==
    [][\A s \in Sessions :
          /\ (pc'[s] = "start" /\ db_file'.exists) => Loads(db_file'.data).ok
          /\ (pc[s] = "write" /\ pc'[s] = "ui" /\ db_file'.exists
                  /\ \A t \in Sessions : boot'[t].fh # "live")
                => \E t \in Sessions :
                       /\ session_state'[t].has_db
                       /\ db_file'.data = Dumps(session_state'[t].db_chunks)]_vars

\* The score order of the claims, a zero-norm unit's score counting as
\* minus infinity.
ScoreGeq(a, b) == b.nan \/ (~a.nan /\ a.v >= b.v)

InTop(top, u) == \E i \in 1..Len(top) : top[i] = u

Rank(top, u) == CHOOSE i \in 1..Len(top) : top[i] = u

\* C6: on an index of N >= 1 units the ranking returns min(4, N) distinct
\* units in non-increasing score order, and no unit left out scores higher
\* than a returned one.
C6_TopKByScore ==
    \A s \in Sessions :
        (pc[s] = "q_generate" /\ Len(session_state[s].db_chunks) >= 1)
            => LET top == q[s].top_indices
                   sims == q[s].similarities
                   N == Len(session_state[s].db_chunks)
               IN  /\ Len(top) = IF TopK <= N THEN TopK ELSE N
                   /\ \A i, j \in 1..Len(top) : i # j => top[i] # top[j]
                   /\ \A i \in 1..Len(top) :
                          i < Len(top) => ScoreGeq(sims[top[i]], sims[top[i + 1]])
                   /\ \A u \in 1..N :
                          ~InTop(top, u) =>
                              \A i \in 1..Len(top) : ScoreGeq(sims[top[i]], sims[u])

\* C7: a query on an index of zero units is refused: no generation call is
\* issued for it and no assistant turn is appended.
C7_EmptyIndexRejected ==
    \A s \in Sessions :
        (session_state[s].has_db /\ session_state[s].db_chunks = <<>>)
            => /\ pc[s] # "q_generate"
               /\ \A i \in 1..Len(session_state[s].messages) :
                      session_state[s].messages[i].role # "assistant"

\* C8: of two units with equal (defined) scores the one earlier in the index is ranked
\* first, and is the one returned when only one of them is.
C8_StableTieBreak ==
    \A s \in Sessions :
        pc[s] = "q_generate"
            => LET top == q[s].top_indices
                   sims == q[s].similarities
               IN  \A u, w \in 1..Len(sims) :
                       (u < w /\ ~sims[u].nan /\ sims[u] = sims[w] /\ InTop(top, w))
                           => (InTop(top, u) /\ Rank(top, u) < Rank(top, w))

\* C9: a unit with a zero-norm vector is left out of the result when at
\* least 4 units have non-zero norm, and is never ranked above a unit whose
\* score is defined.
C9_ZeroNormExcluded ==
    \A s \in Sessions :
        pc[s] = "q_generate"
            => LET top == q[s].top_indices
                   sims == q[s].similarities
                   db_chunks == session_state[s].db_chunks
                   NonZero == {u \in 1..Len(db_chunks) : norm(db_chunks[u].vector) # 0}
               IN  \A u \in 1..Len(db_chunks) :
                       (norm(db_chunks[u].vector) = 0 /\ InTop(top, u))
                           => /\ Cardinality(NonZero) < TopK
                              /\ \A w \in 1..Len(db_chunks) :
                                     (InTop(top, w) /\ ~sims[w].nan)
                                         => Rank(top, w) < Rank(top, u)

FileIndex(f) == CHOOSE i \in 1..Len(files) : files[i] = f

NonEmptyPages(d) ==
    {pg \in (1..Len(files)) \X (1..(MaxPages + 1)) :
        /\ d[files[pg[1]]].exists
        /\ pg[2] <= Len(d[files[pg[1]]].pages)
        /\ d[files[pg[1]]].pages[pg[2]] # <<>>}

PageOf(source) == <<FileIndex(source.file), source.page>>

\* C10: the extracted units come in pairs, one pair per non-empty page of an
\* existing document and in document and page order; the two units of a pair
\* carry the page's label, the first holds the first len // 2 characters and
\* the two texts concatenate to the page text.
C10_PagesSplitInTwo ==
    \A s \in Sessions :
        /\ pc[s] = "embed" =>
              LET raw == boot[s].raw_chunks
              IN  /\ Len(raw) = 2 * Cardinality(NonEmptyPages(docs))
                  /\ \A k \in 1..(Len(raw) \div 2) :
                         LET first == raw[2 * k - 1]
                             second == raw[2 * k]
                             t == docs[first.source.file].pages[first.source.page]
                         IN  /\ PageOf(first.source) \in NonEmptyPages(docs)
                             /\ second.source = first.source
                             /\ Len(first.text) = Len(t) \div 2
                             /\ first.text \o second.text = t
                             /\ \A l \in 1..(Len(raw) \div 2) :
                                    k < l =>
                                        LET a == PageOf(first.source)
                                            b == PageOf(raw[2 * l].source)
                                        IN  a[1] < b[1] \/ (a[1] = b[1] /\ a[2] < b[2])
        /\ err[s] = "EmptyExtraction" => NonEmptyPages(docs) = {}

C10_Witness ==
    \E s \in Sessions :
        /\ pc[s] = "embed"
        /\ Len(boot[s].raw_chunks) >= 4
        /\ boot[s].raw_chunks[1].source.file # boot[s].raw_chunks[Len(boot[s].raw_chunks)].source.file
        /\ \E k \in 1..Len(boot[s].raw_chunks) : Len(boot[s].raw_chunks[k].text) >= 2
        /\ Len(boot[s].raw_chunks[1].text) < Len(boot[s].raw_chunks[2].text)

\* The shape of an index: every unit carries text, source and vector, and
\* all vectors have one length.
WellShaped(index) ==
    /\ \A i \in 1..Len(index) : {"text", "source", "vector"} \subseteq DOMAIN index[i]
    /\ \A i, j \in 1..Len(index) :
           ("vector" \in DOMAIN index[i] /\ "vector" \in DOMAIN index[j])
               => Len(index[i].vector) = Len(index[j].vector)

\* C11: a stored file that does not unpickle into a well-shaped index makes
\* the load fail and the run halt: no session holds such an index or is
\* ready to take a query on it.
C11_MalformedBlobHalts ==
    \A s \in Sessions :
        (session_state[s].has_db \/ Ready(s)) => WellShaped(session_state[s].db_chunks)

\* Empty or whitespace-only text.
IsBlank(text) == \A k \in 1..Len(text) : text[k] = " "

\* C12: no extracted unit comes from a page whose text is empty or only
\* whitespace.
C12_BlankPagesSkipped ==
    \A s \in Sessions :
        \A i \in 1..Len(boot[s].raw_chunks) :
            LET source == boot[s].raw_chunks[i].source
            IN  ~IsBlank(docs[source.file].pages[source.page])

\* C13: every extracted unit, and so every unit of an index built by the
\* bootstrap, has a non-empty text.
C13_UnitTextNonEmpty ==
    \A s \in Sessions :
        \A i \in 1..Len(boot[s].raw_chunks) : boot[s].raw_chunks[i].text # <<>>

IsPrefix(a, b) == Len(a) <= Len(b) /\ SubSeq(b, 1, Len(a)) = a

Alternates(messages) ==
    /\ Len(messages) % 2 = 0
    /\ \A i \in 1..Len(messages) :
           messages[i].role = IF i % 2 = 1 THEN "user" ELSE "assistant"

\* C14: within a session every step keeps the transcript as a prefix of the
\* new one; a query that completes leaves the transcript it found extended
\* by its user turn and one assistant turn; and while no query of the session
\* has failed, the transcript between queries alternates user, assistant and
\* has even length.
C14_TranscriptAppendOnly ==
    [][\A s \in Sessions :
          /\ ~(pc[s] = "ui" /\ pc'[s] = "start")
                => IsPrefix(session_state[s].messages, session_state'[s].messages)
          /\ (pc[s] = "q_generate" /\ pc'[s] = "ui" /\ err'[s] = "none")
                => \E answer \in Answers :
                       session_state'[s].messages =
                           pre[s].session_state.messages
                               \o <<Turn("user", q[s].prompt), Turn("assistant", answer)>>
          /\ (pc'[s] = "ui" /\ ~failed'[s]) => Alternates(session_state'[s].messages)]_vars

C14_Witness ==
    \E s \in Sessions :
        /\ pc[s] = "ui"
        /\ ~failed[s]
        /\ ~db_file.exists
        /\ Len(session_state[s].messages) >= 4

====
